---------------------------- MODULE Spec2Model ----------------------------
(***************************************************************************)
(* Model of the command wrappers of agentic-automated-content-generation:  *)
(*   src/audio/tts_generation.py    generate_audio, main                   *)
(*   src/video/video_generation.py  generate_avatar_video_from_text,       *)
(*                                  generate_avatar_video, main            *)
(* One behaviour is one invocation: either a wrapper process (its main,    *)
(* in stdin-JSON or command-line mode) or a direct call of one of the      *)
(* three generation operations.  Every external call (file read, upload,   *)
(* submission, status query, download, the opening of the output file,     *)
(* the write to it, the client's creation, synthesis) is a step whose      *)
(* outcome is chosen nondeterministically.                                 *)
(* Spec is one invocation; FairSpec adds that the process keeps running;   *)
(* ConcSpec is two wrapper processes sharing the file system.              *)
(***************************************************************************)
EXTENDS Naturals, Sequences, FiniteSets, TLC

VARIABLES
    entry,       \* what was invoked: a wrapper's main or an operation
    pc,          \* position of the invocation in the code
    stdin_tty,   \* sys.stdin.isatty()
    stdin,       \* what sys.stdin.read() yields
    argv,        \* sys.argv
    env,         \* os.getenv("HEYGEN_API_KEY") (None when unset)
    lib_ok,      \* whether google.cloud.texttospeech can be imported
    fs,          \* the file system: path -> file
    call,        \* the arguments of the running operation
    bg_config,   \* generate_avatar_video_from_text: bg_config
    content_type,\* Content-Type of the upload request (None before it)
    payload,     \* the payload of the submission (empty before it)
    video_id,    \* the job identifier returned by the submission
    attempt,     \* the polling loop's attempt counter
    status_data, \* the "data" object of the last status response
    body,        \* response content waiting to be written
    result,      \* the operation's returned dict (NoResult before it returns)
    stdout,      \* items written to standard output
    stderr,      \* number of lines written to standard error
    net,         \* number of network calls made, per kind
    io,          \* number of file reads and of opens for writing
    exc,         \* the exception that escaped the process (None if none)
    last,        \* the last external call and how it ended
    failed,      \* whether a step of the operation has raised an exception
    slept,       \* what the polling loop has slept (see NoSleep)
    other        \* the suspended peer process, when two wrappers run at once

vars == <<entry, pc, stdin_tty, stdin, argv, env, lib_ok, fs, call, bg_config,
          content_type, payload, video_id, attempt, status_data, body, result,
          stdout, stderr, net, io, exc, last, failed, slept, other>>

-----------------------------------------------------------------------------
(* Python values *)

None == "None"

\* Python truthiness of a str-or-None value: `if v:`
Truthy(v) == v # None /\ v # ""

\* dict.get(key, default) on a dict modelled as a function
Get(d, key, default) == IF key \in DOMAIN d THEN d[key] ELSE default

\* str.lower() on the characters the model's paths use
LowerChar(c) ==
    CASE c = "P" -> "p"
      [] c = "N" -> "n"
      [] c = "G" -> "g"
      [] c = "J" -> "j"
      [] OTHER -> c

RECURSIVE Lower(_)
Lower(s) == IF Len(s) = 0 THEN s
            ELSE LowerChar(SubSeq(s, 1, 1)) \o Lower(SubSeq(s, 2, Len(s)))

\* str.endswith(suffix)
EndsWith(s, suffix) ==
    /\ Len(s) >= Len(suffix)
    /\ SubSeq(s, Len(s) - Len(suffix) + 1, Len(s)) = suffix

\* str.startswith(prefix)
StartsWith(s, prefix) ==
    /\ Len(s) >= Len(prefix)
    /\ SubSeq(s, 1, Len(prefix)) = prefix

-----------------------------------------------------------------------------
(* Module constants of video_generation.py and literals of tts_generation.py *)

DEFAULT_AVATAR_ID == "Annie_expressive10_public"
DEFAULT_VOICE_ID == "1bd001e7e50f421d891986aad5158bc8"
DEFAULT_BACKGROUND == "newsroom"
DEFAULT_BACKGROUND_COLOR == "#1a2332"

\* Mutant: another voice as the default
OtherDefaultVoice == "en-US-Standard-A"

\* generate_audio, line 36
DEFAULT_TTS_VOICE == "en-US-Neural2-F"

\* max_attempts of the two polling loops
ft_max_attempts == 240
av_max_attempts == 240

\* time.sleep(5) (line 213) and time.sleep(30) (line 379) at the top of the
\* two loops; time.sleep(10) (line 392) after a request exception
ft_sleep == 5
av_sleep == 30
av_retry_sleep == 10

PNG_MAGIC == <<137, 80, 78, 71, 13, 10, 26, 10>>

DEFAULT_VIDEO_WIDTH == 720
DEFAULT_VIDEO_HEIGHT == 1280
DEFAULT_ASPECT_RATIO == "9:16"
DEFAULT_SPEECH_SPEED == "1.25"

-----------------------------------------------------------------------------
(* Values shared by the wrappers *)

EmptyDict == [k \in {} |-> None]

\* No dict returned yet
NoResult == [status |-> "none"]

\* {"status": "error", "message": msg}
ErrorResult(msg) == [status |-> "error", message |-> msg]

\* print(json.dumps(r)) and print(text) on standard output
JsonItem(r) == [kind |-> "json", value |-> r]
TextItem(t) == [kind |-> "text", value |-> t]

\* A file: present or not, and its bytes
NoFile == [exists |-> FALSE, data |-> <<>>]
File(bytes) == [exists |-> TRUE, data |-> bytes]
FileAt(p) == IF p \in DOMAIN fs THEN fs[p] ELSE NoFile

\* sys.argv[i]
Argv(i) == argv[i + 1]

\* The arguments of an operation; a field an operation does not take is None
NoCall ==
    [op |-> None, text |-> None, audio_path |-> None, output_path |-> None,
     avatar_id |-> None, voice_id |-> None, background |-> None,
     background_image |-> None, speech_speed |-> None, callback_url |-> None,
     voice |-> None, speed |-> None]

Mains == {"tts_main", "avatar_main"}

\* Where an operation's return leads: back into main, or to the direct caller
AfterReturn ==
    CASE entry = "tts_main" -> "tts_print"
      [] entry = "avatar_main" -> "avm_print"
      [] OTHER -> "done"

\* What sys.stdin.read() can hold: text json.loads rejects, or a JSON value
JsonParses(s) == s.kind \notin {"garbage", "empty"}
IsJsonObject(s) == s.kind = "dict"

NoNet == [synth |-> 0, upload |-> 0, submit |-> 0, status |-> 0, download |-> 0]
NoIo == [read |-> 0, write |-> 0]

\* Nothing slept yet.  poll: the seconds slept in all by the time.sleep at
\* the top of the polling loop; latest: the seconds of the last time.sleep
\* call, that of line 392 too
NoSleep == [poll |-> 0, latest |-> 0]

NoLast == [call |-> "none", outcome |-> "none"]
Last(c, o) == [call |-> c, outcome |-> o]

\* Variables a step of the running invocation never changes: its inputs, and
\* the state of a peer process
inputs == <<entry, stdin_tty, stdin, argv, env, lib_ok, other>>

\* Locals of the two HeyGen operations, and the time their loop has slept
heygen == <<bg_config, content_type, payload, video_id, attempt, status_data,
            slept>>

-----------------------------------------------------------------------------
(* How a step of an operation ends.  `said` is the number of lines the step
   printed on standard error before it ended. *)

\* The operation goes on at p
Goto(p, said) ==
    /\ pc' = p
    /\ stderr' = stderr + said
    /\ UNCHANGED <<result, stdout, exc, failed>>

\* The operation returns r from its try block
Return(r, said) ==
    /\ result' = r
    /\ pc' = AfterReturn
    /\ stderr' = stderr + said
    /\ UNCHANGED <<stdout, exc, failed>>

\* An except clause of the operation returns r, having printed `items` on
\* standard output
Handled(r, said, items) ==
    /\ result' = r
    /\ pc' = AfterReturn
    /\ stderr' = stderr + said
    /\ stdout' = stdout \o items
    /\ failed' = TRUE
    /\ UNCHANGED exc

\* No except clause matches: the exception leaves the operation
Escapes(e, said) ==
    /\ exc' = e
    /\ pc' = "crashed"
    /\ stderr' = stderr + said
    /\ failed' = TRUE
    /\ UNCHANGED <<result, stdout>>

\* open(path, "wb"): o = "ok" (the file is created, or truncated if it was
\* there) or "open_error" (the file is left as it was)
OpenFile(path, o) ==
    /\ io' = [io EXCEPT !.write = @ + 1]
    /\ last' = Last("open", o)
    /\ fs' = IF o = "ok" THEN (path :> File(<<>>)) @@ fs ELSE fs

\* A file that held `old`, after `bytes` are written at its start: what lay
\* beyond them stays
Overwritten(old, bytes) == bytes \o SubSeq(old, Len(bytes) + 1, Len(old))

\* How a write that put n of the bytes into the file ended
WriteOutcome(bytes, n) == IF n = Len(bytes) THEN "ok" ELSE "write_error"

\* f.write(bytes) and the close of the file opened by OpenFile: the first n
\* bytes reach the file, from its start; with n < Len(bytes) the write raises
WriteFile(path, bytes, n) ==
    /\ n <= Len(bytes)
    /\ last' = Last("write", WriteOutcome(bytes, n))
    /\ fs' = (path :> File(Overwritten(FileAt(path).data, SubSeq(bytes, 1, n))))
              @@ fs
    /\ UNCHANGED io

\* str(e) of the exception a failed step raises
ExcOf(o) ==
    CASE o = "http_error" -> "HTTPError"
      [] o = "timeout" -> "Timeout"
      [] o = "bad_body" -> "AttributeError"
      [] o = "open_error" -> "FileNotFoundError"
      [] o = "write_error" -> "OSError"
      [] o = "import_error" -> "ImportError"
      [] o = "client_error" -> "DefaultCredentialsError"
      [] o = "api_error" -> "GoogleAPICallError"
      [] OTHER -> "Exception"

-----------------------------------------------------------------------------
(* The except clauses of a main's stdin-JSON mode *)

\* Mutant: the `except Exception` clause is left out
CatchesOnlyJsonError(e) == e = "JSONDecodeError"

\* Which exceptions they catch: json.JSONDecodeError, then Exception
MainCatches(e) == e = "JSONDecodeError" \/ TRUE

\* The dict they print for exception e
MainExceptItem(e) ==
    IF e = "JSONDecodeError"
    THEN JsonItem(ErrorResult("Invalid JSON input: " \o e))
    ELSE JsonItem(ErrorResult(e))

\* Exception e is raised inside the try block of stdin-JSON mode
MainRaises(e) ==
    /\ IF MainCatches(e)
       THEN /\ stdout' = Append(stdout, MainExceptItem(e))
            /\ pc' = "done"
            /\ UNCHANGED exc
       ELSE /\ exc' = e
            /\ pc' = "crashed"
            /\ UNCHANGED stdout
    /\ UNCHANGED call

\* main prints the items and returns without calling an operation
MainEnds(items) ==
    /\ stdout' = stdout \o items
    /\ pc' = "done"
    /\ UNCHANGED <<exc, call>>

\* main calls an operation with arguments c; the operation starts at p
MainCalls(c, p) ==
    /\ call' = c
    /\ pc' = p
    /\ UNCHANGED <<stdout, exc>>

-----------------------------------------------------------------------------
(* src/audio/tts_generation.py *)

\* Line 11, `from google.cloud import texttospeech`, runs when the script is
\* loaded, before main is called
TTS_Import ==
    /\ pc = "tts_import"
    /\ IF lib_ok
       THEN pc' = "tts_main" /\ UNCHANGED exc
       ELSE pc' = "crashed" /\ exc' = "ImportError"
    /\ UNCHANGED <<inputs, fs, call, heygen, body, result, stdout, stderr, net,
                   io, last, failed>>

\* The arguments of generate_audio(text, output_path, voice, speed)
TTS_Args(text, output_path, voice, speed) ==
    [NoCall EXCEPT !.op = "generate_audio", !.text = text,
                   !.output_path = output_path, !.voice = voice, !.speed = speed]

\* `if not text` (line 95)
TTS_TextMissing(text) == ~Truthy(text)

\* main, stdin-JSON mode (lines 86-114), up to the call of generate_audio
TTS_MainStdin ==
    IF ~JsonParses(stdin) THEN MainRaises("JSONDecodeError")
    ELSE IF ~IsJsonObject(stdin) THEN MainRaises("AttributeError")
    ELSE LET input_data == stdin.obj
             text == Get(input_data, "text", "")
             output_path == Get(input_data, "output_path", "output.mp3")
             voice == Get(input_data, "voice", None)
             speed == Get(input_data, "speed", "1.0")
         IN  IF TTS_TextMissing(text)
             THEN MainEnds(<<JsonItem(ErrorResult("No text provided"))>>)
             ELSE MainCalls(TTS_Args(text, output_path, voice, speed),
                            "ga_client")

\* main, command-line mode (lines 117-122), up to the call of generate_audio
TTS_MainArgs ==
    LET text == Argv(1)
        output_path == IF Len(argv) > 2 THEN Argv(2) ELSE "output.mp3"
    IN  MainCalls(TTS_Args(text, output_path, None, "1.0"), "ga_client")

\* main, neither mode (lines 124-127): the usage text
TTS_Usage == MainEnds(<<TextItem("Usage:"), TextItem("  CLI: ..."),
                        TextItem("  JSON stdin: ...")>>)

TTS_Main ==
    /\ pc = "tts_main"
    /\ IF ~stdin_tty THEN TTS_MainStdin
       ELSE IF Len(argv) >= 2 THEN TTS_MainArgs
       ELSE TTS_Usage
    /\ UNCHANGED <<inputs, fs, heygen, body, result, stderr, net, io, last, failed>>

\* except Exception (line 73) catches every exception a step raises
GA_Catches(e) == TRUE

\* The except clauses of generate_audio (lines 68-77); neither prints
GA_Except(e, said) ==
    IF e = "ImportError"
    THEN Handled(ErrorResult("Google Cloud TTS library not installed. Run: poetry add google-cloud-texttospeech"),
                 said, <<>>)
    ELSE IF GA_Catches(e) THEN Handled(ErrorResult(e), said, <<>>)
    ELSE Escapes(e, said)

\* generate_audio, line 30: texttospeech.TextToSpeechClient().  o is what the
\* library does; no request is made yet, and voice is as it was given
GA_Client(o) ==
    /\ pc = "ga_client"
    /\ last' = Last("client", o)
    /\ IF o = "ok"
       THEN Goto("ga_synthesize", 0)
       ELSE GA_Except(ExcOf(o), 0)
    /\ UNCHANGED <<inputs, fs, call, heygen, body, net, io>>

\* generate_audio, lines 32-54: the default voice, the request and the one
\* call of synthesize_speech
GA_Synthesize(o, bytes) ==
    /\ pc = "ga_synthesize"
    /\ LET voice == IF ~Truthy(call.voice) THEN DEFAULT_TTS_VOICE ELSE call.voice
       IN  call' = [call EXCEPT !.voice = voice]
    /\ net' = [net EXCEPT !.synth = @ + 1]
    /\ last' = Last("synth", o)
    /\ IF o = "ok"
       THEN /\ body' = bytes
            /\ Goto("ga_open", 1)
       ELSE /\ GA_Except(ExcOf(o), 1)
            /\ UNCHANGED body
    /\ UNCHANGED <<inputs, fs, heygen, io>>

\* generate_audio, line 56: output_path is opened for writing
GA_Open(o) ==
    /\ pc = "ga_open"
    /\ OpenFile(call.output_path, o)
    /\ IF o = "ok"
       THEN Goto("ga_write", 0)
       ELSE GA_Except(ExcOf(o), 0)
    /\ UNCHANGED <<inputs, call, heygen, body, net>>

\* generate_audio, lines 57-66: the bytes are written, and the result
GA_Write(n) ==
    /\ pc = "ga_write"
    /\ WriteFile(call.output_path, body, n)
    /\ IF WriteOutcome(body, n) = "ok"
       THEN Return([status |-> "success", audio_path |-> call.output_path,
                    provider |-> "google", voice |-> call.voice], 1)
       ELSE GA_Except(ExcOf("write_error"), 0)
    /\ UNCHANGED <<inputs, call, heygen, body, net>>

\* main, lines 103 and 122: print(json.dumps(result))
TTS_Print ==
    /\ pc = "tts_print"
    /\ stdout' = Append(stdout, JsonItem(result))
    /\ pc' = "done"
    /\ UNCHANGED <<inputs, fs, call, heygen, body, result, stderr, net, io, exc,
                   last, failed>>

-----------------------------------------------------------------------------
(* src/video/video_generation.py: what the remote service can answer *)

\* The "data" object of a status response
StatusBodies ==
    { [status |-> "completed", video_url |-> "https://files/v1.mp4", duration |-> 12],
      [status |-> "completed", video_url |-> ""],
      [status |-> "completed"],
      [status |-> "failed", error |-> "render failed"],
      [status |-> "failed"],
      [status |-> "processing"],
      EmptyDict }

\* How a status query can fail: requests.Timeout ("timeout"), another
\* requests.RequestException ("http_error"), or a JSON body whose "data" is
\* not an object ("bad_body"): it is assigned to status_data, and the .get
\* on it then raises AttributeError
StatusFailures == {"timeout", "http_error", "bad_body"}

\* The "data" of a bad_body response
BadData == "oops"

UploadOutcomes == {"ok_url", "ok_nourl", "http_error", "bad_body"}
SubmitOutcomes == {"ok_id", "ok_noid", "http_error", "bad_body"}
DownloadOutcomes == {"ok", "http_error"}
OpenOutcomes == {"ok", "open_error"}

\* What TextToSpeechClient() and synthesize_speech can do
ClientOutcomes == {"ok", "client_error", "import_error"}
SynthOutcomes == {"ok", "api_error"}

\* Bytes a download or a synthesis can return
Contents == {<<1, 2, 3>>, <<4, 5>>}

\* How many of them a write can put into the file: all, or fewer when it fails
WrittenCounts == UNION {0..Len(b) : b \in Contents}

\* Mutant: `while attempt <= max_attempts`, one iteration too many
AttemptsLeftInclusive(n, max_attempts) == n <= max_attempts

\* `while attempt < max_attempts` (lines 212 and 378)
AttemptsLeft(n, max_attempts) == n < max_attempts

\* Mutant: `if api_key is None`, which lets an empty key through
KeyIsNone(api_key) == api_key = None

\* `if not api_key` (lines 72 and 291)
ApiKeyMissing(api_key) == ~Truthy(api_key)

\* Mutant: the "completed" branch is left out, so a finished job is polled again
CompletedIgnored(video_status) == FALSE

\* `if video_status == "completed"` (lines 223 and 398)
IsCompleted(video_status) == video_status = "completed"

\* Mutant: the "failed" branch is left out, so a failed job is polled again
FailedIgnored(video_status) == FALSE

\* `elif video_status == "failed"` (lines 252 and 425)
IsFailed(video_status) == video_status = "failed"

\* Mutant: the check for a missing video URL is left out
UrlCheckDropped(video_url) == FALSE

\* `if not video_url` (lines 226 and 401)
UrlMissing(video_url) == ~Truthy(video_url)

\* Lines 242-248 and 417-423: the dict of a finished job
SuccessResult ==
    [status |-> "success", video_path |-> call.output_path,
     video_url |-> Get(status_data, "video_url", None), video_id |-> video_id,
     duration |-> Get(status_data, "duration", 0)]

\* Lines 252-256 and 425-429: the dict of a failed job
FailedResult(data) ==
    ErrorResult("Video generation failed: " \o Get(data, "error", "Unknown error"))

-----------------------------------------------------------------------------
(* generate_avatar_video_from_text *)

\* Lines 98-103: the Content-Type of the image upload
ImageContentType(background_image, image_data) ==
    IF EndsWith(Lower(background_image), ".png")
       /\ SubSeq(image_data, 1, 8) = PNG_MAGIC
    THEN "image/png"
    ELSE "image/jpeg"

\* Mutant: the "newsroom" branch is left out, so a supplied image is used
NewsroomNotSpecial(background) == FALSE

\* `if background == "newsroom"` (line 82)
IsNewsroom(background) == background = "newsroom"

\* Mutant: `except requests.RequestException`, which lets file errors through
FT_CatchesRequestErrors(e) == e \in {"HTTPError", "Timeout"}

\* except Exception (line 263) catches every exception a step raises
FT_Catches(e) == TRUE

\* Lines 263-268: the text goes to standard error
FT_Except(e, said) ==
    IF FT_Catches(e) THEN Handled(ErrorResult(e), said + 1, <<>>)
    ELSE Escapes(e, said)

\* Lines 70-92 and 129-144: the key and the background; os.path.isfile tells
\* a local image from a URL
FT_Start ==
    /\ pc = "ft_start"
    /\ LET api_key == env
           background == call.background
           background_image == call.background_image
       IN
       IF ApiKeyMissing(api_key)
       THEN /\ Return(ErrorResult("HEYGEN_API_KEY not set in environment"), 0)
            /\ UNCHANGED <<bg_config, content_type, io, last>>
       ELSE IF IsNewsroom(background)
       THEN /\ bg_config' = [type |-> "color", value |-> DEFAULT_BACKGROUND_COLOR]
            /\ Goto("ft_submit", 1)
            /\ UNCHANGED <<content_type, io, last>>
       ELSE IF Truthy(background_image)
       THEN IF FileAt(background_image).exists
            THEN /\ Goto("ft_read", 2)
                 /\ UNCHANGED <<bg_config, content_type, io, last>>
            ELSE /\ bg_config' = [type |-> "image", url |-> background_image]
                 /\ Goto("ft_submit", 1)
                 /\ UNCHANGED <<content_type, io, last>>
       ELSE IF StartsWith(background, "#")
       THEN /\ bg_config' = [type |-> "color", value |-> background]
            /\ Goto("ft_submit", 1)
            /\ UNCHANGED <<content_type, io, last>>
       ELSE /\ bg_config' = [type |-> "color", value |-> background]
            /\ Goto("ft_submit", 1)
            /\ UNCHANGED <<content_type, io, last>>
    /\ UNCHANGED <<inputs, fs, call, payload, video_id, attempt, status_data,
                   body, net, slept>>

\* Lines 95-108: the local image is read, and the Content-Type chosen
FT_Read ==
    /\ pc = "ft_read"
    /\ IF FileAt(call.background_image).exists
       THEN /\ io' = [io EXCEPT !.read = @ + 1]
            /\ last' = Last("read", "ok")
            /\ content_type' = ImageContentType(call.background_image,
                                                FileAt(call.background_image).data)
            /\ Goto("ft_upload", 0)
       ELSE /\ last' = Last("read", "open_error")
            /\ FT_Except(ExcOf("open_error"), 0)
            /\ UNCHANGED <<io, content_type>>
    /\ UNCHANGED <<inputs, fs, call, bg_config, payload, video_id, attempt,
                   status_data, body, net, slept>>

\* Mutant: an upload answered without a URL is an error, as in
\* generate_avatar_video
FT_UploadNeedsUrl(o) ==
    /\ pc = "ft_upload"
    /\ net' = [net EXCEPT !.upload = @ + 1]
    /\ last' = Last("upload", o)
    /\ CASE o = "ok_url" ->
              /\ bg_config' = [type |-> "image", url |-> "https://assets/img1"]
              /\ Goto("ft_submit", 1)
         [] o = "ok_nourl" ->
              /\ Return(ErrorResult("Failed to upload background image"), 0)
              /\ UNCHANGED bg_config
         [] OTHER ->
              /\ FT_Except(ExcOf(o), 0)
              /\ UNCHANGED bg_config
    /\ UNCHANGED <<inputs, fs, call, content_type, payload, video_id, attempt,
                   status_data, body, io, slept>>

\* Lines 110-128: the upload of the local image
FT_Upload(o) ==
    /\ pc = "ft_upload"
    /\ net' = [net EXCEPT !.upload = @ + 1]
    /\ last' = Last("upload", o)
    /\ CASE o = "ok_url" ->
              /\ bg_config' = [type |-> "image", url |-> "https://assets/img1"]
              /\ Goto("ft_submit", 1)
         [] o = "ok_nourl" ->
              /\ bg_config' = [type |-> "color", value |-> DEFAULT_BACKGROUND_COLOR]
              /\ Goto("ft_submit", 1)
         [] OTHER ->
              /\ FT_Except(ExcOf(o), 0)
              /\ UNCHANGED bg_config
    /\ UNCHANGED <<inputs, fs, call, content_type, payload, video_id, attempt,
                   status_data, body, io, slept>>

\* Mutant: the callback URL is never looked at, so the operation always polls
WebhookIgnored(callback_url) == FALSE

\* `if callback_url` (lines 180 and 198)
UsesWebhook(callback_url) == Truthy(callback_url)

\* Lines 155-181: the payload of the submission
FT_Payload ==
    LET base == [caption |-> TRUE,
                 character |-> [type |-> "avatar", avatar_id |-> call.avatar_id,
                                avatar_style |-> "normal"],
                 voice |-> [type |-> "text", input_text |-> call.text,
                            voice_id |-> call.voice_id, speed |-> call.speech_speed],
                 background |-> bg_config,
                 dimension |-> [width |-> DEFAULT_VIDEO_WIDTH,
                                height |-> DEFAULT_VIDEO_HEIGHT],
                 aspect_ratio |-> DEFAULT_ASPECT_RATIO,
                 test |-> FALSE]
    IN  IF UsesWebhook(call.callback_url)
        THEN ("callback_id" :> call.callback_url) @@ base
        ELSE base

\* Lines 146-210: the submission, and the webhook's early return
FT_Submit(o) ==
    /\ pc = "ft_submit"
    /\ payload' = FT_Payload
    /\ net' = [net EXCEPT !.submit = @ + 1]
    /\ last' = Last("submit", o)
    /\ LET said == 1 + (IF UsesWebhook(call.callback_url) THEN 1 ELSE 0)
       IN
       CASE o = "ok_id" ->
              /\ video_id' = "vid-1"
              /\ IF UsesWebhook(call.callback_url)
                 THEN /\ Return([status |-> "processing", video_id |-> "vid-1",
                                 message |-> "Video is processing. Will notify webhook when complete.",
                                 callback_url |-> call.callback_url], said + 2)
                      /\ UNCHANGED attempt
                 ELSE /\ attempt' = 0
                      /\ Goto("ft_loop", said + 1)
         [] o = "ok_noid" ->
              /\ Return([status |-> "error", message |-> "Failed to create video",
                         details |-> "response"], said)
              /\ UNCHANGED <<video_id, attempt>>
         [] OTHER ->
              /\ FT_Except(ExcOf(o), said)
              /\ UNCHANGED <<video_id, attempt>>
    /\ UNCHANGED <<inputs, fs, call, bg_config, content_type, status_data, body, io,
                   slept>>

\* Lines 212-214: the loop test, the sleep and the count
FT_Sleep ==
    /\ pc = "ft_loop"
    /\ AttemptsLeft(attempt, ft_max_attempts)
    /\ slept' = [poll |-> slept.poll + ft_sleep, latest |-> ft_sleep]
    /\ attempt' = attempt + 1
    /\ Goto("ft_status", 0)
    /\ UNCHANGED <<inputs, fs, call, bg_config, content_type, payload, video_id,
                   status_data, body, net, io, last>>

\* Lines 258-261: the dict returned when the loop ends
FT_TimeoutResult == [status |-> "error", message |-> "Video generation timed out"]

FT_Timeout ==
    /\ pc = "ft_loop"
    /\ ~AttemptsLeft(attempt, ft_max_attempts)
    /\ Return(FT_TimeoutResult, 0)
    /\ UNCHANGED <<inputs, fs, call, heygen, body, net, io, last>>

\* Lines 216-220: a status query that fails; the exception is raised by the
\* request (lines 216-217) or, status_data assigned, by line 220
FT_StatusFails(o) ==
    /\ pc = "ft_status"
    /\ net' = [net EXCEPT !.status = @ + 1]
    /\ last' = Last("status", o)
    /\ status_data' = IF o = "bad_body" THEN BadData ELSE status_data
    /\ FT_Except(ExcOf(o), 0)
    /\ UNCHANGED <<inputs, fs, call, bg_config, content_type, payload, video_id,
                   attempt, slept, body, io>>

\* Lines 216-256: a status query that is answered, and what the answer leads to
FT_Status(data) ==
    /\ pc = "ft_status"
    /\ net' = [net EXCEPT !.status = @ + 1]
    /\ last' = Last("status", "answered")
    /\ status_data' = data
    /\ LET video_status == Get(data, "status", None)
       IN  IF IsCompleted(video_status)
           THEN IF UrlMissing(Get(data, "video_url", None))
                THEN Return(ErrorResult("Video completed but no URL provided"), 1)
                ELSE Goto("ft_download", 2)
           ELSE IF IsFailed(video_status)
           THEN Return(FailedResult(data), 1)
           ELSE Goto("ft_loop", 1)
    /\ UNCHANGED <<inputs, fs, call, bg_config, content_type, payload, video_id,
                   attempt, body, io, slept>>

\* Lines 234-235: the download
FT_Download(o, bytes) ==
    /\ pc = "ft_download"
    /\ net' = [net EXCEPT !.download = @ + 1]
    /\ last' = Last("download", o)
    /\ IF o = "ok"
       THEN /\ body' = bytes
            /\ Goto("ft_open", 0)
       ELSE /\ FT_Except(ExcOf(o), 0)
            /\ UNCHANGED body
    /\ UNCHANGED <<inputs, fs, call, heygen, io>>

\* Line 237: output_path is opened for writing
FT_Open(o) ==
    /\ pc = "ft_open"
    /\ OpenFile(call.output_path, o)
    /\ IF o = "ok"
       THEN Goto("ft_write", 0)
       ELSE FT_Except(ExcOf(o), 0)
    /\ UNCHANGED <<inputs, call, heygen, body, net>>

\* Lines 238-250: the bytes are written, and the result
FT_Write(n) ==
    /\ pc = "ft_write"
    /\ WriteFile(call.output_path, body, n)
    /\ IF WriteOutcome(body, n) = "ok"
       THEN Return(SuccessResult, 1)
       ELSE FT_Except(ExcOf("write_error"), 0)
    /\ UNCHANGED <<inputs, call, heygen, body, net>>

-----------------------------------------------------------------------------
(* generate_avatar_video *)

\* except Exception (line 440) catches every exception a step raises
AV_Catches(e) == TRUE

\* Line 441: print(f"Error: {str(e)}") has no file=sys.stderr, so the text
\* goes to standard output
AV_ExceptPrint(e) == <<TextItem("Error: " \o e)>>

\* Lines 440-445
AV_Except(e, said) ==
    IF AV_Catches(e) THEN Handled(ErrorResult(e), said, AV_ExceptPrint(e))
    ELSE Escapes(e, said)

\* Lines 289-301: the key
AV_Start ==
    /\ pc = "av_start"
    /\ LET api_key == env
       IN
       IF ApiKeyMissing(api_key)
       THEN Return(ErrorResult("HEYGEN_API_KEY not set in environment"), 0)
       ELSE Goto("av_read", 2)
    /\ UNCHANGED <<inputs, fs, call, heygen, body, net, io, last>>

\* Lines 303-309: the audio file is read
AV_Read ==
    /\ pc = "av_read"
    /\ IF ~FileAt(call.audio_path).exists
       THEN /\ last' = Last("read", "open_error")
            /\ AV_Except(ExcOf("open_error"), 0)
            /\ UNCHANGED <<io, content_type>>
       ELSE /\ io' = [io EXCEPT !.read = @ + 1]
            /\ last' = Last("read", "ok")
            /\ content_type' = "audio/mpeg"
            /\ Goto("av_upload", 0)
    /\ UNCHANGED <<inputs, fs, call, bg_config, payload, video_id, attempt,
                   status_data, body, net, slept>>

\* Lines 311-325: the upload of the audio file
AV_Upload(o) ==
    /\ pc = "av_upload"
    /\ net' = [net EXCEPT !.upload = @ + 1]
    /\ last' = Last("upload", o)
    /\ CASE o = "ok_url" -> Goto("av_submit", 1)
         [] o = "ok_nourl" ->
              Return([status |-> "error", message |-> "Failed to upload audio file",
                      details |-> "response"], 0)
         [] OTHER -> AV_Except(ExcOf(o), 0)
    /\ UNCHANGED <<inputs, fs, call, heygen, body, io>>

\* Lines 336-358: the payload of the submission
AV_Payload ==
    [character |-> [type |-> "avatar", avatar_id |-> call.avatar_id,
                    avatar_style |-> "normal"],
     voice |-> [type |-> "audio", audio_url |-> "https://assets/audio1"],
     background |-> [type |-> "color", value |-> call.background],
     dimension |-> [width |-> DEFAULT_VIDEO_WIDTH, height |-> DEFAULT_VIDEO_HEIGHT],
     aspect_ratio |-> DEFAULT_ASPECT_RATIO,
     test |-> FALSE]

\* Lines 327-376: the submission
AV_Submit(o) ==
    /\ pc = "av_submit"
    /\ payload' = AV_Payload
    /\ net' = [net EXCEPT !.submit = @ + 1]
    /\ last' = Last("submit", o)
    /\ CASE o = "ok_id" ->
              /\ video_id' = "vid-1"
              /\ attempt' = 0
              /\ Goto("av_loop", 2)
         [] o = "ok_noid" ->
              /\ Return([status |-> "error", message |-> "Failed to create video",
                         details |-> "response"], 1)
              /\ UNCHANGED <<video_id, attempt>>
         [] OTHER ->
              /\ AV_Except(ExcOf(o), 1)
              /\ UNCHANGED <<video_id, attempt>>
    /\ UNCHANGED <<inputs, fs, call, bg_config, content_type, status_data, body, io,
                   slept>>

\* Lines 378-380: the loop test, the sleep and the count
AV_Sleep ==
    /\ pc = "av_loop"
    /\ AttemptsLeft(attempt, av_max_attempts)
    /\ slept' = [poll |-> slept.poll + av_sleep, latest |-> av_sleep]
    /\ attempt' = attempt + 1
    /\ Goto("av_status", 0)
    /\ UNCHANGED <<inputs, fs, call, bg_config, content_type, payload, video_id,
                   status_data, body, net, io, last>>

\* Line 435: max_attempts * 5 / 60, in tenths of a minute as {:.1f} rounds it
AV_TimeoutTenths == (av_max_attempts * 5 * 10 + 30) \div 60

\* Line 435: f"{max_attempts * 5 / 60:.1f}"
AV_TimeoutMinutes ==
    ToString(AV_TimeoutTenths \div 10) \o "." \o ToString(AV_TimeoutTenths % 10)

\* Lines 433-438: the dict returned when the loop ends
AV_TimeoutResult ==
    [status |-> "error",
     message |-> "Video generation timed out after " \o AV_TimeoutMinutes
                 \o " minutes. Video may still be processing.",
     video_id |-> video_id,
     check_url |-> "https://app.heygen.com/videos/" \o video_id]

AV_Timeout ==
    /\ pc = "av_loop"
    /\ ~AttemptsLeft(attempt, av_max_attempts)
    /\ Return(AV_TimeoutResult, 0)
    /\ UNCHANGED <<inputs, fs, call, heygen, body, net, io, last>>

\* Mutant: the inner try of the loop is left out
ToleratesNothing(o) == FALSE

\* Lines 387-393: the failures of a status query the loop survives
\* (requests.Timeout, requests.RequestException)
AV_Tolerates(o) == o \in {"timeout", "http_error"}

\* Lines 382-395: a status query that fails.  After an exception of the
\* request the loop goes on: at once after a timeout (lines 387-389), after
\* a sleep when it was another request exception (lines 390-391); a
\* bad_body is assigned to status_data (line 386) and line 395 raises,
\* outside the inner try
AV_StatusFails(o) ==
    /\ pc = "av_status"
    /\ net' = [net EXCEPT !.status = @ + 1]
    /\ last' = Last("status", o)
    /\ status_data' = IF o = "bad_body" THEN BadData ELSE status_data
    /\ IF AV_Tolerates(o)
       THEN /\ pc' = IF o = "timeout" THEN "av_loop" ELSE "av_retry"
            /\ stderr' = stderr + 1
            /\ failed' = TRUE
            /\ UNCHANGED <<result, stdout, exc>>
       ELSE AV_Except(ExcOf(o), 0)
    /\ UNCHANGED <<inputs, fs, call, bg_config, content_type, payload, video_id,
                   attempt, slept, body, io>>

\* Lines 392-393: time.sleep(10) after a request exception, and `continue`
AV_RetrySleep ==
    /\ pc = "av_retry"
    /\ slept' = [slept EXCEPT !.latest = av_retry_sleep]
    /\ Goto("av_loop", 0)
    /\ UNCHANGED <<inputs, fs, call, bg_config, content_type, payload, video_id,
                   attempt, status_data, body, net, io, last>>

\* Lines 384-429: a status query that is answered, and what the answer leads to
AV_Status(data) ==
    /\ pc = "av_status"
    /\ net' = [net EXCEPT !.status = @ + 1]
    /\ last' = Last("status", "answered")
    /\ status_data' = data
    /\ LET video_status == Get(data, "status", None)
       IN  IF IsCompleted(video_status)
           THEN IF UrlMissing(Get(data, "video_url", None))
                THEN Return(ErrorResult("Video completed but no URL provided"), 1)
                ELSE Goto("av_download", 2)
           ELSE IF IsFailed(video_status)
           THEN Return(FailedResult(data), 1)
           ELSE Goto("av_loop", 1)
    /\ UNCHANGED <<inputs, fs, call, bg_config, content_type, payload, video_id,
                   attempt, body, io, slept>>

\* Lines 409-410: the download
AV_Download(o, bytes) ==
    /\ pc = "av_download"
    /\ net' = [net EXCEPT !.download = @ + 1]
    /\ last' = Last("download", o)
    /\ IF o = "ok"
       THEN /\ body' = bytes
            /\ Goto("av_open", 0)
       ELSE /\ AV_Except(ExcOf(o), 0)
            /\ UNCHANGED body
    /\ UNCHANGED <<inputs, fs, call, heygen, io>>

\* Line 412: output_path is opened for writing
AV_Open(o) ==
    /\ pc = "av_open"
    /\ OpenFile(call.output_path, o)
    /\ IF o = "ok"
       THEN Goto("av_write", 0)
       ELSE AV_Except(ExcOf(o), 0)
    /\ UNCHANGED <<inputs, call, heygen, body, net>>

\* Lines 413-423: the bytes are written, and the result
AV_Write(n) ==
    /\ pc = "av_write"
    /\ WriteFile(call.output_path, body, n)
    /\ IF WriteOutcome(body, n) = "ok"
       THEN Return(SuccessResult, 1)
       ELSE AV_Except(ExcOf("write_error"), 0)
    /\ UNCHANGED <<inputs, call, heygen, body, net>>


-----
(* main of video_generation.py *)

\* Mutant: main forwards the input's callback_url
TextArgsWithCallback(text, output_path, avatar_id, voice_id, background, background_image) ==
    [NoCall EXCEPT !.op = "from_text", !.text = text,
                   !.output_path = output_path, !.avatar_id = avatar_id,
                   !.voice_id = voice_id, !.background = background,
                   !.background_image = background_image,
                   !.speech_speed = DEFAULT_SPEECH_SPEED,
                   !.callback_url = Get(stdin.obj, "callback_url", None)]

\* The arguments main passes to generate_avatar_video_from_text; speech_speed
\* and callback_url are never passed and keep their defaults
AVM_TextArgs(text, output_path, avatar_id, voice_id, background, background_image) ==
    [NoCall EXCEPT !.op = "from_text", !.text = text,
                   !.output_path = output_path, !.avatar_id = avatar_id,
                   !.voice_id = voice_id, !.background = background,
                   !.background_image = background_image,
                   !.speech_speed = DEFAULT_SPEECH_SPEED,
                   !.callback_url = None]

\* The arguments main passes to generate_avatar_video
AVM_AudioArgs(audio_path, output_path, avatar_id, background) ==
    [NoCall EXCEPT !.op = "avatar_video", !.audio_path = audio_path,
                   !.output_path = output_path, !.avatar_id = avatar_id,
                   !.background = background]

AVM_CallText(text, output_path, avatar_id, voice_id, background, background_image) ==
    MainCalls(AVM_TextArgs(text, output_path, avatar_id, voice_id, background,
                           background_image), "ft_start")

AVM_CallAudio(audio_path, output_path, avatar_id, background) ==
    MainCalls(AVM_AudioArgs(audio_path, output_path, avatar_id, background),
              "av_start")

\* Mutant: audio_path is looked at first
AudioFirst(text, audio_path) ==
    IF Truthy(audio_path) THEN "audio"
    ELSE IF Truthy(text) THEN "text"
    ELSE "none"

\* `if text: ... elif audio_path: ... else:` (lines 470, 480 and 487)
AVM_Chooses(text, audio_path) ==
    IF Truthy(text) THEN "text"
    ELSE IF Truthy(audio_path) THEN "audio"
    ELSE "none"

\* main, stdin-JSON mode (lines 456-505), up to the call of an operation
AVM_MainStdin ==
    IF ~JsonParses(stdin) THEN MainRaises("JSONDecodeError")
    ELSE IF ~IsJsonObject(stdin) THEN MainRaises("AttributeError")
    ELSE LET input_data == stdin.obj
             text == Get(input_data, "text", "")
             audio_path == Get(input_data, "audio_path", "")
             output_path == Get(input_data, "output_path", "output.mp4")
             avatar_id == Get(input_data, "avatar_id", "Annie_expressive10_public")
             background == Get(input_data, "background", "newsroom")
             background_image == Get(input_data, "background_image", None)
             voice_id == Get(input_data, "voice_id", "1bd001e7e50f421d891986aad5158bc8")
         IN  CASE AVM_Chooses(text, audio_path) = "text" ->
                    AVM_CallText(text, output_path, avatar_id, voice_id,
                                 background, background_image)
               [] AVM_Chooses(text, audio_path) = "audio" ->
                    AVM_CallAudio(audio_path, output_path, avatar_id, background)
               [] OTHER ->
                    MainEnds(<<JsonItem(ErrorResult("No text or audio_path provided"))>>)

\* Mutant: text mode asks for one argument more
TextModeNeedsFive(mode, argc) == mode = "text" /\ argc >= 5

\* `if mode == "text" and len(sys.argv) >= 4` (line 510)
IsTextMode(mode, argc) == mode = "text" /\ argc >= 4

\* main, command-line mode (lines 508-527), up to the call of an operation
AVM_MainArgs ==
    LET mode == Argv(1)
    IN  IF IsTextMode(mode, Len(argv))
        THEN AVM_CallText(Argv(2), Argv(3),
                          IF Len(argv) > 4 THEN Argv(4) ELSE "Annie_expressive10_public",
                          IF Len(argv) > 5 THEN Argv(5) ELSE "1bd001e7e50f421d891986aad5158bc8",
                          DEFAULT_BACKGROUND, None)
        ELSE AVM_CallAudio(Argv(1),
                           IF Len(argv) > 2 THEN Argv(2) ELSE "output.mp4",
                           IF Len(argv) > 3 THEN Argv(3) ELSE "Annie_expressive10_public",
                           "newsroom")

\* main, neither mode (lines 529-543): fourteen lines of usage text
AVM_Usage == MainEnds([i \in 1..14 |-> TextItem("usage")])

AVM_Main ==
    /\ pc = "avm_main"
    /\ IF ~stdin_tty THEN AVM_MainStdin
       ELSE IF Len(argv) >= 2 THEN AVM_MainArgs
       ELSE AVM_Usage
    /\ UNCHANGED <<inputs, fs, heygen, body, result, stderr, net, io, last, failed>>

\* main, lines 494, 519 and 527: print(json.dumps(result))
AVM_Print ==
    /\ pc = "avm_print"
    /\ stdout' = Append(stdout, JsonItem(result))
    /\ pc' = "done"
    /\ UNCHANGED <<inputs, fs, call, heygen, body, result, stderr, net, io, exc,
                   last, failed>>

-----------------------------------------------------------------------------
(* The invocations checked *)

\* The files present when an invocation starts
InitFs ==
    [p \in {"a.mp3", "bg.png", "photo.jpg", "fake.PNG", "out.mp3", "out.mp4"} |->
        CASE p = "a.mp3" -> File(<<73, 68, 51>>)
          [] p = "bg.png" -> File(PNG_MAGIC \o <<0>>)
          [] p = "photo.jpg" -> File(PNG_MAGIC \o <<7>>)
          [] p = "fake.PNG" -> File(<<255, 216, 255, 224, 0, 16, 74, 70, 1>>)
          [] OTHER -> File(<<8>>)]

\* Values of HEYGEN_API_KEY: unset, empty, set
EnvValues == {None, "", "sk-key"}

NotRead == [kind |-> "empty", obj |-> EmptyDict]
JsonObject(d) == [kind |-> "dict", obj |-> d]

\* Inputs json.loads rejects, and JSON values that are not objects
BadStdin == {[kind |-> k, obj |-> EmptyDict] :
                k \in {"garbage", "empty", "list", "string", "number", "null"}}

TtsObjects ==
    { EmptyDict,
      [text |-> ""],
      [output_path |-> "out.mp3"],
      [text |-> "hello"],
      [text |-> "hello", output_path |-> "out.mp3", voice |-> "en-GB-News-G",
       speed |-> "1.5"] }

TtsArgvs ==
    { <<"tts_generation.py">>,
      <<"tts_generation.py", "">>,
      <<"tts_generation.py", "hello">>,
      <<"tts_generation.py", "hello", "out.mp3">> }

AvatarObjects ==
    { EmptyDict,
      [text |-> ""],
      [audio_path |-> ""],
      [text |-> "", audio_path |-> "", output_path |-> "out.mp4"],
      [text |-> "hello"],
      [text |-> "hello", audio_path |-> "a.mp3"],
      [text |-> "hello", output_path |-> "out.mp4", background |-> "#0e1118"],
      [text |-> "hello", background_image |-> "bg.png"],
      [text |-> "hello", background |-> "custom", background_image |-> "bg.png"],
      [text |-> "hello", background |-> "custom", background_image |-> "photo.jpg"],
      [text |-> "hello", background |-> "custom", background_image |-> "fake.PNG"],
      [text |-> "hello", background |-> "custom",
       background_image |-> "https://cdn/bg.jpg"],
      [text |-> "hello", output_path |-> "out.mp4",
       callback_url |-> "https://hooks/done"],
      [audio_path |-> "a.mp3"],
      [audio_path |-> "a.mp3", output_path |-> "out.mp4", background |-> "#0e1118"],
      [audio_path |-> "missing.mp3"] }

AvatarArgvs ==
    { <<"video_generation.py">>,
      <<"video_generation.py", "">>,
      <<"video_generation.py", "a.mp3">>,
      <<"video_generation.py", "a.mp3", "out.mp4", "Wayne_20240711">>,
      <<"video_generation.py", "missing.mp3", "out.mp4">>,
      <<"video_generation.py", "text">>,
      <<"video_generation.py", "text", "hello">>,
      <<"video_generation.py", "text", "hello", "out.mp4">>,
      <<"video_generation.py", "text", "", "out.mp4">>,
      <<"video_generation.py", "text", "hello", "out.mp4", "Wayne_20240711",
        "2d5b0e6cf36f4bf5b5cb0b4e5e6e9e3d">> }

\* Direct calls of generate_avatar_video_from_text
TextCalls ==
    { [NoCall EXCEPT !.op = "from_text", !.text = "hello", !.output_path = "out.mp4",
                     !.avatar_id = DEFAULT_AVATAR_ID, !.voice_id = DEFAULT_VOICE_ID,
                     !.background = b, !.background_image = i,
                     !.speech_speed = DEFAULT_SPEECH_SPEED, !.callback_url = c] :
        b \in {DEFAULT_BACKGROUND, "custom"}, i \in {None, "bg.png"},
        c \in {None, "", "https://hooks/done"} }

\* Direct calls of generate_avatar_video
AudioCalls ==
    { [NoCall EXCEPT !.op = "avatar_video", !.audio_path = a,
                     !.output_path = "output.mp4",
                     !.avatar_id = "Annie_expressive10_public",
                     !.background = "newsroom"] :
        a \in {"a.mp3", "missing.mp3"} }

\* Direct calls of generate_audio
SpeechCalls ==
    { [NoCall EXCEPT !.op = "generate_audio", !.text = "hello",
                     !.output_path = "out.mp3", !.voice = v, !.speed = "1.0"] :
        v \in {None, "en-GB-News-G"} }

\* The state every invocation starts from, its inputs left open
InitRest ==
    /\ fs = InitFs
    /\ bg_config = EmptyDict
    /\ content_type = None
    /\ payload = EmptyDict
    /\ video_id = None
    /\ attempt = 0
    /\ status_data = EmptyDict
    /\ body = <<>>
    /\ result = NoResult
    /\ stdout = <<>>
    /\ stderr = 0
    /\ net = NoNet
    /\ io = NoIo
    /\ exc = None
    /\ last = NoLast
    /\ failed = FALSE
    /\ slept = NoSleep

InitTtsMain ==
    /\ entry = "tts_main" /\ pc = "tts_import" /\ call = NoCall
    /\ lib_ok \in BOOLEAN
    /\ env \in {None}
    /\ \/ /\ stdin_tty = FALSE
          /\ stdin \in BadStdin \cup {JsonObject(d) : d \in TtsObjects}
          /\ argv = <<"tts_generation.py">>
       \/ /\ stdin_tty = TRUE
          /\ stdin = NotRead
          /\ argv \in TtsArgvs

InitAvatarMain ==
    /\ entry = "avatar_main" /\ pc = "avm_main" /\ call = NoCall
    /\ lib_ok = TRUE
    /\ env \in EnvValues
    /\ \/ /\ stdin_tty = FALSE
          /\ stdin \in BadStdin \cup {JsonObject(d) : d \in AvatarObjects}
          /\ argv = <<"video_generation.py">>
       \/ /\ stdin_tty = TRUE
          /\ stdin = NotRead
          /\ argv \in AvatarArgvs

InitDirect ==
    /\ stdin_tty = TRUE /\ stdin = NotRead /\ argv = <<"caller.py">>
    /\ lib_ok = TRUE
    /\ \/ entry = "from_text" /\ pc = "ft_start" /\ call \in TextCalls
          /\ env \in EnvValues
       \/ entry = "avatar_video" /\ pc = "av_start" /\ call \in AudioCalls
          /\ env \in EnvValues
       \/ entry = "generate_audio" /\ pc = "ga_client" /\ call \in SpeechCalls
          /\ env = None

\* The state of a process that is not there
NoProcess == [pc |-> "absent"]

Init == InitRest /\ (InitTtsMain \/ InitAvatarMain \/ InitDirect)
             /\ other = NoProcess

Next ==
    \/ TTS_Import
    \/ TTS_Main
    \/ \E o \in ClientOutcomes : GA_Client(o)
    \/ \E o \in SynthOutcomes, b \in Contents : GA_Synthesize(o, b)
    \/ \E o \in OpenOutcomes : GA_Open(o)
    \/ \E n \in WrittenCounts : GA_Write(n)
    \/ TTS_Print
    \/ FT_Start
    \/ FT_Read
    \/ \E o \in UploadOutcomes : FT_Upload(o)
    \/ \E o \in SubmitOutcomes : FT_Submit(o)
    \/ FT_Sleep
    \/ FT_Timeout
    \/ \E o \in StatusFailures : FT_StatusFails(o)
    \/ \E d \in StatusBodies : FT_Status(d)
    \/ \E o \in DownloadOutcomes, b \in Contents : FT_Download(o, b)
    \/ \E o \in OpenOutcomes : FT_Open(o)
    \/ \E n \in WrittenCounts : FT_Write(n)
    \/ AV_Start
    \/ AV_Read
    \/ \E o \in UploadOutcomes : AV_Upload(o)
    \/ \E o \in SubmitOutcomes : AV_Submit(o)
    \/ AV_Sleep
    \/ AV_Timeout
    \/ \E o \in StatusFailures : AV_StatusFails(o)
    \/ AV_RetrySleep
    \/ \E d \in StatusBodies : AV_Status(d)
    \/ \E o \in DownloadOutcomes, b \in Contents : AV_Download(o, b)
    \/ \E o \in OpenOutcomes : AV_Open(o)
    \/ \E n \in WrittenCounts : AV_Write(n)
    \/ AVM_Main
    \/ AVM_Print

Spec == Init /\ [][Next]_vars

\* The process keeps running while it has a step to take: every call and
\* every sleep returns
FairSpec == Spec /\ WF_vars(Next)


-----------------------------------------------------------------------------
(* Two wrapper processes at once.  Each process has its own copy of every
   variable but fs, the file system they share; `other` holds the copy of
   the process that is not running. *)

\* The running process's copy of its variables
Locals ==
    [entry |-> entry, pc |-> pc, stdin_tty |-> stdin_tty, stdin |-> stdin,
     argv |-> argv, env |-> env, lib_ok |-> lib_ok, call |-> call,
     bg_config |-> bg_config, content_type |-> content_type,
     payload |-> payload, video_id |-> video_id, attempt |-> attempt,
     status_data |-> status_data, body |-> body, result |-> result,
     stdout |-> stdout, stderr |-> stderr, net |-> net, io |-> io,
     exc |-> exc, last |-> last, failed |-> failed, slept |-> slept]

\* The scheduler suspends the running process and resumes its peer
Switch ==
    /\ other.pc \notin {"absent", "done", "crashed"}
    /\ other' = Locals
    /\ entry' = other.entry
    /\ pc' = other.pc
    /\ stdin_tty' = other.stdin_tty
    /\ stdin' = other.stdin
    /\ argv' = other.argv
    /\ env' = other.env
    /\ lib_ok' = other.lib_ok
    /\ call' = other.call
    /\ bg_config' = other.bg_config
    /\ content_type' = other.content_type
    /\ payload' = other.payload
    /\ video_id' = other.video_id
    /\ attempt' = other.attempt
    /\ status_data' = other.status_data
    /\ body' = other.body
    /\ result' = other.result
    /\ stdout' = other.stdout
    /\ stderr' = other.stderr
    /\ net' = other.net
    /\ io' = other.io
    /\ exc' = other.exc
    /\ last' = other.last
    /\ failed' = other.failed
    /\ slept' = other.slept
    /\ UNCHANGED fs

\* A wrapper process that has not started: its script, its standard input and
\* its environment
Wrapper(e, object, key) ==
    [entry |-> e, pc |-> IF e = "tts_main" THEN "tts_import" ELSE "avm_main",
     stdin_tty |-> FALSE, stdin |-> JsonObject(object),
     argv |-> IF e = "tts_main" THEN <<"tts_generation.py">>
              ELSE <<"video_generation.py">>,
     env |-> key, lib_ok |-> TRUE, call |-> NoCall, bg_config |-> EmptyDict,
     content_type |-> None, payload |-> EmptyDict, video_id |-> None,
     attempt |-> 0, status_data |-> EmptyDict, body |-> <<>>,
     result |-> NoResult, stdout |-> <<>>, stderr |-> 0, net |-> NoNet,
     io |-> NoIo, exc |-> None, last |-> NoLast, failed |-> FALSE,
     slept |-> NoSleep]

\* Process p is the running process
Runs(p) ==
    /\ entry = p.entry
    /\ pc = p.pc
    /\ stdin_tty = p.stdin_tty
    /\ stdin = p.stdin
    /\ argv = p.argv
    /\ env = p.env
    /\ lib_ok = p.lib_ok
    /\ call = p.call
    /\ bg_config = p.bg_config
    /\ content_type = p.content_type
    /\ payload = p.payload
    /\ video_id = p.video_id
    /\ attempt = p.attempt
    /\ status_data = p.status_data
    /\ body = p.body
    /\ result = p.result
    /\ stdout = p.stdout
    /\ stderr = p.stderr
    /\ net = p.net
    /\ io = p.io
    /\ exc = p.exc
    /\ last = p.last
    /\ failed = p.failed
    /\ slept = p.slept

\* The process that starts first: the TTS wrapper, output_path left at its
\* default
FirstProcesses ==
    { Wrapper("tts_main", [text |-> "hello"], None) }

\* Its peer: the TTS wrapper again, or the avatar wrapper in text or in audio
\* mode, output_path left at its default
PeerProcesses ==
    { Wrapper("tts_main", [text |-> "hello"], None),
      Wrapper("avatar_main", [text |-> "hello", background |-> "custom",
                              background_image |-> "bg.png"], "sk-key"),
      Wrapper("avatar_main", [audio_path |-> "a.mp3"], "sk-key") }

ConcInit ==
    /\ fs = InitFs
    /\ other \in PeerProcesses
    /\ \E p \in FirstProcesses : Runs(p)

ConcNext == Next \/ Switch

ConcSpec == ConcInit /\ [][ConcNext]_vars

-----------------------------------------------------------------------------
(* Properties *)

HeyGenOps == {"from_text", "avatar_video"}

\* The operation has returned its dict
Returned == result.status # "none"

\* C1: in either HeyGen operation, when the submission returned a job id and
\* every status poll was answered with a non-terminal status until the
\* attempt budget was used up, the operation returns status=error with a
\* timeout message, and the returned dict carries the job identifier.
C1_TimeoutCarriesJobId ==
    [][ ( /\ pc \in {"ft_loop", "av_loop"}
          /\ ~failed
          /\ attempt >= (IF pc = "ft_loop" THEN ft_max_attempts ELSE av_max_attempts) )
        => ( /\ result'.status = "error"
             /\ StartsWith(result'.message, "Video generation timed out")
             /\ "video_id" \in DOMAIN result'
             /\ result'.video_id = video_id ) ]_vars

\* C2 as stated: with a callback URL, generate_avatar_video_from_text returns
\* status=processing whatever the submission response holds, and neither the
\* status endpoint nor a download is used.
C2_WebhookAlwaysProcessing ==
    ( /\ call.op = "from_text"
      /\ Truthy(call.callback_url)
      /\ last.call = "submit"
      /\ last.outcome \in {"ok_id", "ok_noid"}
      /\ Returned )
    => ( /\ result.status = "processing"
         /\ net.status = 0
         /\ net.download = 0 )

\* C2, amended: with a callback URL, generate_avatar_video_from_text never
\* queries the status endpoint, never downloads and never writes the output
\* file; it returns status=processing exactly when the submission response
\* holds a job id, and status=error otherwise.
C2_WebhookNeverPolls ==
    ( call.op = "from_text" /\ Truthy(call.callback_url) )
    => ( /\ net.status = 0
         /\ net.download = 0
         /\ io.write = 0
         /\ pc \notin {"ft_loop", "ft_status", "ft_download", "ft_open", "ft_write"}
         /\ Returned =>
              /\ result.status \in {"processing", "error"}
              /\ result.status = "processing" <=> last = Last("submit", "ok_id")
              /\ result.status = "processing" => result.video_id = video_id )

C2_Witness ==
    /\ call.op = "from_text"
    /\ Truthy(call.callback_url)
    /\ Returned
    /\ result.status = "processing"
    /\ net.submit = 1

\* C3: a HeyGen operation returns status=success only after a status poll
\* answered "completed" with a non-empty video URL, the download succeeded
\* and the downloaded bytes were written to output_path.
C3_SuccessOnlyAfterDownload ==
    ( call.op \in HeyGenOps /\ result.status = "success" )
    => ( /\ Get(status_data, "status", None) = "completed"
         /\ Truthy(Get(status_data, "video_url", None))
         /\ result.video_url = status_data.video_url
         /\ net.download = 1
         /\ body \in Contents
         /\ io.write = 1
         /\ last = Last("write", "ok")
         /\ FileAt(call.output_path) = File(body)
         /\ result.video_path = call.output_path )

C3_Witness ==
    /\ call.op \in HeyGenOps
    /\ result.status = "success"
    /\ pc = "done"
    /\ FileAt(call.output_path) = File(body)


\* A status query was answered in this step
PollAnswered == pc \in {"ft_status", "av_status"} /\ last' = Last("status", "answered")

\* The polling loop goes on: from the loop test, with attempts left, the next
\* step sleeps, counts and queries again
PollsAgain ==
    (pc \in {"ft_loop", "av_loop"} /\ ~Returned
     /\ attempt < (IF pc = "ft_loop" THEN ft_max_attempts ELSE av_max_attempts))
    => (pc' \in {"ft_status", "av_status"} /\ attempt' = attempt + 1)

\* C4 as stated: in both polling loops an answer "completed" stops polling and
\* starts the download, an answer "failed" stops polling and returns
\* status=error with the remote error message, and any other answer (a
\* missing status too) leads to another poll while attempts are left.
C4_CompletedStartsDownload ==
    [][ /\ PollAnswered =>
            LET st == Get(status_data', "status", None)
            IN  CASE st = "completed" ->
                       pc' \in {"ft_download", "av_download"} /\ ~Returned'
                  [] st = "failed" ->
                       /\ Returned' /\ result'.status = "error"
                       /\ result'.message = "Video generation failed: "
                             \o Get(status_data', "error", "Unknown error")
                  [] OTHER -> pc' \in {"ft_loop", "av_loop"} /\ ~Returned'
        /\ PollsAgain ]_vars

\* C4, amended: an answer "completed" stops polling; with a non-empty video
\* URL it starts the download, without one the operation returns status=error
\* and downloads nothing.  "failed" and every other answer are as stated.
C4_PollAnswerDecides ==
    [][ /\ PollAnswered =>
            LET st == Get(status_data', "status", None)
            IN  CASE st = "completed" ->
                       IF Truthy(Get(status_data', "video_url", None))
                       THEN pc' \in {"ft_download", "av_download"} /\ ~Returned'
                       ELSE /\ Returned' /\ result'.status = "error"
                            /\ result'.message = "Video completed but no URL provided"
                            /\ net'.download = 0
                  [] st = "failed" ->
                       /\ Returned' /\ result'.status = "error"
                       /\ result'.message = "Video generation failed: "
                             \o Get(status_data', "error", "Unknown error")
                  [] OTHER -> pc' \in {"ft_loop", "av_loop"} /\ ~Returned'
        /\ PollsAgain ]_vars

C4_Witness ==
    /\ pc \in {"ft_download", "av_download"}
    /\ last = Last("status", "answered")
    /\ attempt = 3

\* The request of a wrapper's main lacks a required field
MissingRequiredField ==
    \/ /\ entry = "tts_main" /\ ~stdin_tty /\ IsJsonObject(stdin)
       /\ ~Truthy(Get(stdin.obj, "text", ""))
    \/ /\ entry = "tts_main" /\ stdin_tty /\ Len(argv) >= 2
       /\ Argv(1) = ""
    \/ /\ entry = "avatar_main" /\ ~stdin_tty /\ IsJsonObject(stdin)
       /\ ~Truthy(Get(stdin.obj, "text", ""))
       /\ ~Truthy(Get(stdin.obj, "audio_path", ""))
    \/ /\ entry = "avatar_main" /\ stdin_tty /\ Len(argv) >= 2
       /\ \/ Argv(1) = ""
          \/ Argv(1) = "text" /\ Len(argv) >= 4 /\ Argv(2) = ""

\* C5: a request that lacks a required field, in stdin-JSON mode and in
\* command-line mode of both wrappers, makes no network call and ends with a
\* printed status=error result that names the missing field.
C5_MissingFieldRejected ==
    MissingRequiredField =>
        /\ net = NoNet
        /\ pc = "done" =>
             /\ Len(stdout) = 1
             /\ stdout[1].kind = "json"
             /\ stdout[1].value.status = "error"
             /\ stdout[1].value.message \in
                    {"No text provided", "No text or audio_path provided"}

\* C6: without HEYGEN_API_KEY (unset or empty) both HeyGen operations return
\* status=error at once: no file is read or written and no network call is
\* made, whatever the other arguments.
C6_NoKeyNoCalls ==
    ( call.op \in HeyGenOps /\ ~Truthy(env) )
    => ( /\ net = NoNet
         /\ io = NoIo
         /\ fs = InitFs
         /\ last = NoLast
         /\ pc \in {"ft_start", "av_start", "avm_print", "done"}
         /\ pc \notin {"ft_start", "av_start"} =>
               result = ErrorResult("HEYGEN_API_KEY not set in environment") )

C6_Witness ==
    /\ call.op = "avatar_video"
    /\ env = ""
    /\ call.audio_path = "a.mp3"
    /\ Returned

\* main has been entered and has left its input handling
MainDone ==
    /\ entry \in Mains
    /\ pc \notin {"tts_import", "tts_main", "avm_main"}
    /\ entry = "tts_main" => lib_ok

\* C7: in stdin-JSON mode of both wrappers, an input that is not a JSON object
\* (text that does not parse, empty input, a JSON value of another type) makes
\* main print one status=error result with a message for the failure, call no
\* operation and let no exception escape.
C7_BadJsonReported ==
    ( MainDone /\ ~stdin_tty /\ ~IsJsonObject(stdin) )
    => ( /\ pc = "done"
         /\ exc = None
         /\ call = NoCall
         /\ net = NoNet
         /\ Len(stdout) = 1
         /\ stdout[1].kind = "json"
         /\ stdout[1].value.status = "error"
         /\ IF JsonParses(stdin)
            THEN stdout[1].value.message # ""
            ELSE StartsWith(stdout[1].value.message, "Invalid JSON input") )

C7_Witness ==
    /\ entry = "tts_main"
    /\ ~stdin_tty
    /\ stdin.kind = "list"
    /\ pc = "done"

\* How a step can fail
FailureOutcomes ==
    {"http_error", "timeout", "bad_body", "open_error", "write_error",
     "import_error", "client_error", "api_error"}

\* C8 as stated: every failure of a step of the three operations ends in a
\* returned status=error dict with a message, no exception leaves an
\* operation, and a returned dict's status is success, error or processing.
C8_EveryFailureEndsInError ==
    /\ call.op # None => exc = None
    /\ Returned => result.status \in {"success", "error", "processing"}
    /\ (failed /\ Returned) =>
          /\ result.status = "error"
          /\ result.message # ""

\* The last failure was a status query of generate_avatar_video timing out or
\* raising a request exception
ToleratedPollFailure ==
    /\ call.op = "avatar_video"
    /\ last.call = "status"
    /\ last.outcome \in {"timeout", "http_error"}

\* The last response lacked the field the operation needs, and the operation
\* does not go on without it: a submission without a job id, or an audio
\* upload without a URL (an image upload without a URL falls back to the
\* default colour in generate_avatar_video_from_text)
MissingFieldFailure ==
    \/ last = Last("submit", "ok_noid")
    \/ call.op = "avatar_video" /\ last = Last("upload", "ok_nourl")

\* C8, amended: every failure of a step, other than a timeout or request
\* exception of a status query in generate_avatar_video (after which polling
\* goes on and the run may still succeed) and an image upload answered
\* without a URL in generate_avatar_video_from_text (which falls back to the
\* default colour), makes the operation return status=error with a message
\* at that step; no exception leaves an operation; a returned dict's status
\* is success, error or processing.
C8_FailuresEndInError ==
    /\ call.op # None => (exc = None /\ pc # "crashed")
    /\ Returned => result.status \in {"success", "error", "processing"}
    /\ ( \/ last.outcome \in FailureOutcomes /\ ~ToleratedPollFailure
         \/ MissingFieldFailure ) =>
          /\ Returned
          /\ result.status = "error"
          /\ result.message # ""
    /\ (failed /\ Returned /\ result.status # "error") => call.op = "avatar_video"

C8_Witness ==
    /\ call.op = "from_text"
    /\ last = Last("write", "write_error")
    /\ Returned
    /\ result.status = "error"

\* C9: when the Google Cloud TTS library cannot be imported, an invocation of
\* the TTS wrapper ends with a status=error result naming the missing
\* dependency, not with an uncaught import failure.
C9_MissingLibraryReported ==
    ( entry = "tts_main" /\ ~lib_ok )
    => ( /\ exc = None
         /\ pc # "crashed"
         /\ pc = "done" =>
               /\ Len(stdout) = 1
               /\ stdout[1].kind = "json"
               /\ stdout[1].value.status = "error"
               /\ StartsWith(stdout[1].value.message,
                             "Google Cloud TTS library not installed") )

\* C10: an invocation of a wrapper that runs a generation operation writes
\* exactly one item to standard output, the JSON result; progress and
\* diagnostic text, the text logged for a caught exception too, goes to
\* standard error only.
C10_StdoutOnlyResult ==
    ( entry \in Mains /\ call.op # None )
    => ( /\ \A i \in DOMAIN stdout : stdout[i].kind = "json"
         /\ Len(stdout) <= 1
         /\ pc = "done" => stdout = <<JsonItem(result)>> )


\* background_image names a local file that starts with the PNG signature
LocalPngImage ==
    /\ Truthy(call.background_image)
    /\ FileAt(call.background_image).exists
    /\ SubSeq(FileAt(call.background_image).data, 1, 8) = PNG_MAGIC

\* C11: generate_avatar_video_from_text, given a background_image that is a
\* local file whose first 8 bytes are the PNG signature, performs an upload
\* whose Content-Type is image/png, for every file name extension and every
\* value of background.
C11_PngUploadedAsPng ==
    ( /\ call.op = "from_text"
      /\ Truthy(env)
      /\ LocalPngImage
      /\ pc \notin {"ft_start", "ft_read"} )
    => ( /\ content_type = "image/png"
         /\ pc # "ft_upload" => net.upload = 1 )

\* C12: generate_avatar_video_from_text called with background="newsroom"
\* submits a job whose background is exactly {type: color, value: #1a2332}
\* and makes no upload call, whatever background_image is supplied.
C12_NewsroomIsDefaultColour ==
    ( call.op = "from_text" /\ call.background = "newsroom" )
    => ( /\ net.upload = 0
         /\ io.read = 0
         /\ pc \notin {"ft_read", "ft_upload"}
         /\ net.submit > 0 =>
              payload.background = [type |-> "color", value |-> "#1a2332"] )

C12_Witness ==
    /\ call.op = "from_text"
    /\ call.background = "newsroom"
    /\ call.background_image = "bg.png"
    /\ net.submit = 1
    /\ payload.background = [type |-> "color", value |-> "#1a2332"]

\* C13: generate_avatar_video called with background="newsroom" submits a
\* job whose background colour value is the fixed newsroom colour #1a2332,
\* the value the text path submits for "newsroom".
C13_AudioNewsroomColour ==
    ( /\ call.op = "avatar_video"
      /\ call.background = "newsroom"
      /\ net.submit > 0 )
    => payload.background.value = "#1a2332"

\* Positions inside the two HeyGen operations
FT_Pcs == {"ft_start", "ft_read", "ft_upload", "ft_submit", "ft_loop", "ft_status",
           "ft_download", "ft_open", "ft_write"}
AV_Pcs == {"av_start", "av_read", "av_upload", "av_submit", "av_loop",
           "av_status", "av_retry", "av_download", "av_open", "av_write"}

\* The avatar wrapper has read a JSON object from standard input and has
\* left its input handling
StdinObjectHandled ==
    /\ entry = "avatar_main"
    /\ ~stdin_tty
    /\ IsJsonObject(stdin)
    /\ pc # "avm_main"

\* C14 as stated: in stdin-JSON mode of the avatar wrapper a non-empty text
\* makes the text operation the only operation called, audio_path or not;
\* the audio operation is called only when text is empty or absent and
\* audio_path is non-empty; exactly one operation is called per invocation.
C14_ExactlyOneOperation ==
    StdinObjectHandled =>
        LET text == Get(stdin.obj, "text", "")
            audio_path == Get(stdin.obj, "audio_path", "")
        IN  /\ Truthy(text) => (call.op = "from_text" /\ pc \notin AV_Pcs)
            /\ call.op = "avatar_video" => (~Truthy(text) /\ Truthy(audio_path))
            /\ call.op \in HeyGenOps

\* C14, amended: as stated, except that at most one operation is called per
\* invocation: none is called when text and audio_path are both empty or
\* absent, and the wrapper then prints one status=error result.
C14_TextBeforeAudio ==
    StdinObjectHandled =>
        LET text == Get(stdin.obj, "text", "")
            audio_path == Get(stdin.obj, "audio_path", "")
        IN  /\ Truthy(text) =>
                (call.op = "from_text" /\ call.text = text /\ pc \notin AV_Pcs)
            /\ call.op = "avatar_video" =>
                (~Truthy(text) /\ Truthy(audio_path)
                 /\ call.audio_path = audio_path /\ pc \notin FT_Pcs)
            /\ (~Truthy(text) /\ Truthy(audio_path)) => call.op = "avatar_video"
            /\ (~Truthy(text) /\ ~Truthy(audio_path)) =>
                /\ call = NoCall
                /\ net = NoNet
                /\ pc = "done"
                /\ stdout = <<JsonItem(ErrorResult("No text or audio_path provided"))>>

C14_Witness ==
    /\ StdinObjectHandled
    /\ Truthy(Get(stdin.obj, "text", ""))
    /\ Truthy(Get(stdin.obj, "audio_path", ""))
    /\ call.op = "from_text"
    /\ pc = "done"


\* The running wrapper prints its result in this step
Reports ==
    /\ pc \in {"tts_print", "avm_print"}
    /\ pc' = "done"
    /\ other' = other

\* C15: two wrapper invocations running at once as separate processes, under
\* every interleaving of their steps and for every choice of arguments (both
\* leaving output_path at its default too), do not interfere: an invocation
\* that reports status=success leaves at its reported artifact path exactly
\* the bytes downloaded or synthesized for its own job.
C15_NoInterference ==
    [][ (Reports /\ result.status = "success") =>
            /\ (IF call.op = "generate_audio" THEN result.audio_path
                ELSE result.video_path) = call.output_path
            /\ FileAt(call.output_path) = File(body) ]_vars

\* The operation returned the timeout error of its polling loop
TimedOut ==
    /\ call.op \in HeyGenOps
    /\ result.status = "error"
    /\ StartsWith(result.message, "Video generation timed out")

\* C16: at both polling call sites the time slept between polls when the
\* attempt budget is exhausted (maximum attempts times the sleep interval) is
\* at most 1200 seconds, and equals the minutes stated in the timeout
\* message where one is stated.
C16_SleepWithinTwentyMinutes ==
    TimedOut =>
        /\ slept.poll = (IF call.op = "from_text" THEN ft_max_attempts * ft_sleep
                         ELSE av_max_attempts * av_sleep)
        /\ slept.poll <= 1200
        /\ call.op = "avatar_video" => slept.poll * 10 = AV_TimeoutTenths * 60

\* The synthesis call of generate_audio returned audio bytes
Synthesized == body \in Contents

\* generate_audio takes the given voice, or the fixed default when none is
\* given
VoiceChosen ==
    pc = "ga_synthesize" =>
        call'.voice = (IF Truthy(call.voice) THEN call.voice ELSE "en-US-Neural2-F")

\* C17 as stated: generate_audio calls the synthesis endpoint exactly once per
\* invocation; when the call returns audio bytes it writes exactly those
\* bytes to output_path and returns status=success with audio_path equal to
\* the given output_path and voice equal to the given voice or the fixed
\* default; when the call fails it returns status=error without writing
\* output_path.
C17_OneCallThenWrite ==
    [][ /\ VoiceChosen
        /\ (call'.op = "generate_audio" /\ Returned') =>
              /\ net'.synth = 1
              /\ IF Synthesized'
                 THEN /\ FileAt(call.output_path)' = File(body')
                      /\ result'.status = "success"
                      /\ result'.audio_path = call'.output_path
                      /\ result'.voice = call'.voice
                 ELSE /\ result'.status = "error"
                      /\ io'.write = 0
                      /\ fs' = InitFs ]_vars

\* C17, amended: generate_audio calls the synthesis endpoint at most once per
\* invocation, and exactly once unless the client cannot be created; when
\* the call returns audio bytes it opens output_path once, and if the write
\* succeeds the file holds exactly those bytes and the result is
\* status=success with audio_path and voice as stated, while a failed write
\* gives status=error; when the call fails or is not made it returns
\* status=error without writing output_path.
C17_OneCallWriteOrError ==
    [][ /\ VoiceChosen
        /\ (call'.op = "generate_audio" /\ Returned') =>
              /\ net'.synth <= 1
              /\ net'.synth = 0 <=> last' \in {Last("client", "client_error"),
                                              Last("client", "import_error")}
              /\ IF Synthesized'
                 THEN /\ net'.synth = 1
                      /\ io'.write = 1
                      /\ IF last' = Last("write", "ok")
                         THEN /\ FileAt(call.output_path)' = File(body')
                              /\ result'.status = "success"
                              /\ result'.audio_path = call'.output_path
                              /\ result'.voice = call'.voice
                         ELSE result'.status = "error"
                 ELSE /\ result'.status = "error"
                      /\ io'.write = 0
                      /\ fs' = InitFs ]_vars

C17_Witness ==
    /\ call.op = "generate_audio"
    /\ result.status = "success"
    /\ result.voice = "en-US-Neural2-F"
    /\ net.synth = 1
    /\ FileAt("out.mp3") = File(body)
    /\ body \in Contents

\* A status query of this step ended in a timeout or a request exception
PollFailed ==
    /\ net'.status = net.status + 1
    /\ last'.outcome \in {"timeout", "http_error"}

\* C18: in generate_avatar_video a timeout or request exception of a status
\* query never ends the operation: it has used one attempt and polling goes
\* on, so the loop is left without an answer only with the timeout error,
\* after exactly 240 queries; in generate_avatar_video_from_text the first
\* failing status query ends the operation with status=error and no query
\* follows it.
C18_AudioPathToleratesPollFailures ==
    [][ /\ (pc = "av_status" /\ PollFailed) =>
              /\ pc' \in {"av_loop", "av_retry"}
              /\ ~Returned'
              /\ exc' = None
              /\ attempt' = attempt
              /\ net'.status = attempt
        /\ (pc = "av_retry" /\ other' = other) =>
              /\ pc' = "av_loop"
              /\ ~Returned'
              /\ attempt' = attempt
              /\ net' = net
        /\ PollsAgain
        /\ (pc = "av_loop" /\ pc' # "av_status" /\ other' = other) =>
              /\ result' = AV_TimeoutResult
              /\ net.status = 240
              /\ attempt = 240
        /\ (pc = "ft_status" /\ PollFailed) =>
              /\ Returned'
              /\ result'.status = "error"
              /\ pc' \notin FT_Pcs
        /\ (call.op = "from_text" /\ failed) => net'.status = net.status ]_vars

C18_Witness ==
    /\ TimedOut
    /\ call.op = "avatar_video"
    /\ last.call = "status"
    /\ last.outcome \in {"timeout", "http_error"}
    /\ status_data = EmptyDict
    /\ slept.latest = av_retry_sleep
    /\ net.status = 240

\* A step that starts an iteration of a polling loop
LoopIteration ==
    /\ pc \in {"ft_loop", "av_loop"}
    /\ pc' \in {"ft_status", "av_status"}

\* C19: if every network call and sleep returns, every run of either HeyGen
\* operation eventually returns a result; the attempt counter stays within
\* 0..240, it goes up by exactly one per loop iteration whatever the poll
\* outcome (and changes in no other step), and at most 240 status queries
\* are issued per job.
C19_EveryRunReturns ==
    /\ [](attempt \in 0..240 /\ net.status <= 240 /\ net.status <= attempt)
    /\ [][ IF LoopIteration THEN attempt' = attempt + 1
                            ELSE attempt' = attempt ]_vars
    /\ (call.op \in HeyGenOps) ~> Returned

C19_Witness ==
    /\ call.op = "from_text"
    /\ Returned
    /\ result.status = "success"
    /\ attempt = 240
    /\ net.status = 240
    /\ last = Last("write", "ok")

\* The sleep interval of the running operation's loop
SleepInterval == IF call.op = "from_text" THEN ft_sleep ELSE av_sleep

\* C20: in every run of either HeyGen operation the external calls occur in
\* the order upload (if any), submit, status queries, download: a status
\* query is issued only after the submission returned a job id and after a
\* sleep, never after a terminal status; a download only after a poll
\* answered "completed"; upload, submission and download at most once.
C20_CallOrder ==
    [][ call.op \in HeyGenOps =>
          /\ net'.upload > net.upload =>
                (net.upload = 0 /\ net.submit = 0 /\ net.status = 0
                 /\ net.download = 0)
          /\ net'.submit > net.submit =>
                (net.submit = 0 /\ net.status = 0 /\ net.download = 0)
          /\ net'.status > net.status =>
                /\ net.submit = 1
                /\ video_id # None
                /\ attempt = net.status + 1
                /\ slept.poll = SleepInterval * (net.status + 1)
                /\ Get(status_data, "status", None) \notin {"completed", "failed"}
                /\ net.download = 0
          /\ net'.download > net.download =>
                /\ net.download = 0
                /\ net.status > 0
                /\ last = Last("status", "answered")
                /\ Get(status_data, "status", None) = "completed" ]_vars

C20_Witness ==
    /\ call.op = "from_text"
    /\ net.upload = 1
    /\ net.submit = 1
    /\ net.status = 3
    /\ net.download = 1
    /\ Returned


\* C21: when an asset upload succeeds at HTTP level but its response carries
\* no URL, generate_avatar_video returns status=error and never submits a
\* job, whereas generate_avatar_video_from_text does not fail: it takes the
\* default colour background {type: color, value: #1a2332} and goes on to
\* submit the job.
C21_UploadWithoutUrl ==
    [][ /\ (pc = "av_upload" /\ last' = Last("upload", "ok_nourl")) =>
              /\ Returned'
              /\ result'.status = "error"
              /\ pc' \notin AV_Pcs
              /\ net'.submit = 0
        /\ (call.op = "avatar_video" /\ last = Last("upload", "ok_nourl")) =>
              /\ net'.submit = 0
              /\ payload' = EmptyDict
        /\ (pc = "ft_upload" /\ last' = Last("upload", "ok_nourl")) =>
              /\ ~Returned'
              /\ ~failed'
              /\ exc' = None
              /\ bg_config' = [type |-> "color", value |-> "#1a2332"]
              /\ pc' = "ft_submit"
        /\ pc = "ft_submit" =>
              /\ net'.submit = net.submit + 1
              /\ payload'.background = bg_config ]_vars

C21_Witness ==
    /\ call.op = "from_text"
    /\ call.background = "custom"
    /\ call.background_image = "bg.png"
    /\ net.upload = 1
    /\ net.submit = 1
    /\ payload.background = [type |-> "color", value |-> "#1a2332"]
    /\ result.status = "success"

\* C22: a run of either HeyGen operation that returns status=error or
\* status=processing leaves the file at output_path as it was, unless the
\* final file write itself failed; output_path is opened for writing at most
\* once, and only after a "completed" poll with a non-empty URL and a
\* successful download; a "completed" poll without a video URL returns
\* status=error with no download and no write.
C22_OutputUntouchedOnError ==
    call.op \in HeyGenOps =>
        /\ io.write <= 1
        /\ io.write = 1 =>
              /\ Get(status_data, "status", None) = "completed"
              /\ Truthy(Get(status_data, "video_url", None))
              /\ net.download = 1
              /\ body \in Contents
              /\ last.call \in {"open", "write"}
        /\ (Returned /\ result.status \in {"error", "processing"}
            /\ last # Last("write", "write_error")) =>
              /\ io.write = 1 <=> last = Last("open", "open_error")
              /\ FileAt(call.output_path) =
                    (IF call.output_path \in DOMAIN InitFs
                     THEN InitFs[call.output_path] ELSE NoFile)
              /\ fs = InitFs
        /\ (last = Last("status", "answered")
            /\ Get(status_data, "status", None) = "completed"
            /\ ~Truthy(Get(status_data, "video_url", None))) =>
              /\ Returned
              /\ result.status = "error"
              /\ net.download = 0
              /\ io.write = 0

C22_Witness ==
    /\ call.op = "avatar_video"
    /\ Returned
    /\ result = ErrorResult("Video completed but no URL provided")
    /\ Get(status_data, "status", None) = "completed"
    /\ net.status = 2
    /\ io.write = 0
    /\ fs = InitFs

\* C23: no invocation through main of the avatar wrapper, in stdin-JSON mode
\* or in command-line mode and for any input, supplies a callback URL to
\* generate_avatar_video_from_text: the printed result never has
\* status=processing, and every submission that returned a job id is
\* followed by local polling.
C23_MainNeverUsesWebhook ==
    [][ entry = "avatar_main" =>
          /\ call'.callback_url = None
          /\ "callback_id" \notin DOMAIN payload'
          /\ result'.status # "processing"
          /\ \A i \in DOMAIN stdout' :
                stdout'[i].kind = "json" => stdout'[i].value.status # "processing"
          /\ (net'.submit > net.submit /\ last'.outcome = "ok_id") =>
                (pc' \in {"ft_loop", "av_loop"} /\ attempt' = 0)
          /\ PollsAgain
          /\ pc \in {"ft_status", "av_status"} => net'.status = net.status + 1 ]_vars

C23_Witness ==
    /\ entry = "avatar_main"
    /\ ~stdin_tty
    /\ Truthy(Get(stdin.obj, "callback_url", None))
    /\ call.op = "from_text"
    /\ net.submit = 1
    /\ net.status = 2
    /\ pc = "done"
    /\ stdout = <<JsonItem(result)>>
    /\ result.status = "success"

\* The avatar wrapper has left the argument handling of command-line mode
ArgsHandled ==
    /\ entry = "avatar_main"
    /\ stdin_tty
    /\ Len(argv) >= 2
    /\ pc # "avm_main"

\* C24: in command-line mode of the avatar wrapper the text operation is
\* called exactly when the first argument is "text" and at least three
\* arguments follow the script name; every other argument list with at
\* least one argument ("text" followed by a script but no output path too)
\* calls the legacy audio operation with the first argument as audio_path
\* and the second, when there is one, as output_path.
C24_ArgumentDispatch ==
    ArgsHandled =>
        IF argv[2] = "text" /\ Len(argv) - 1 >= 3
        THEN /\ call.op = "from_text"
             /\ call.text = argv[3]
             /\ call.output_path = argv[4]
             /\ pc \notin AV_Pcs
        ELSE /\ call.op = "avatar_video"
             /\ call.audio_path = argv[2]
             /\ call.output_path = (IF Len(argv) >= 3 THEN argv[3] ELSE "output.mp4")
             /\ pc \notin FT_Pcs

C24_Witness ==
    /\ ArgsHandled
    /\ argv = <<"video_generation.py", "text", "hello">>
    /\ call.op = "avatar_video"
    /\ call.audio_path = "text"
    /\ call.output_path = "hello"
    /\ pc = "done"

=============================================================================
